---------------------------- MODULE Spec2Model ----------------------------
(***************************************************************************)
(* A model of the ASS -> WebVTT conversion engine of gui_converter.py:     *)
(* the ConversionWorker thread (run, convert_ass_to_vtt) and its pure      *)
(* helpers (ass_time_to_vtt_time, clean_ass_formatting, parse_ass_file,    *)
(* generate_vtt_content).                                                  *)
(*                                                                         *)
(* A Python str is modelled as a sequence of one-character strings, so     *)
(* that split, strip, startswith, int() and the format specs are computed  *)
(* character by character as the interpreter computes them.                *)
(*                                                                         *)
(* The module holds several specifications over one set of variables:      *)
(*   Spec / FairSpec  the batch thread ConversionWorker.run                *)
(*   SpecTime         ass_time_to_vtt_time applied to one timestamp        *)
(*   SpecClean        clean_ass_formatting applied to one text             *)
(*   SpecVtt          generate_vtt_content over a list of events           *)
(*   SpecParse        the line scanner of parse_ass_file                   *)
(* In each of them the variables of the other components stay idle.        *)
(***************************************************************************)
EXTENDS Integers, Sequences, FiniteSets, TLC

VARIABLES
    \* ---- ConversionWorker.run ----
    files,          \* self.files: the ordered list of input paths
    suffix,         \* self.suffix
    fs,             \* the file system: path -> kind of content
    n,              \* number of loop iterations started (i + 1 of enumerate)
    pc,             \* position of the worker thread
    exc,            \* the exception in flight ("" when none)
    outcome,        \* per list position: "" | "returned" | "raised"
    log,            \* every notification and file operation, in order
    \* ---- ass_time_to_vtt_time ----
    ass_time, vtt_time, tpc,
    \* ---- clean_ass_formatting ----
    text, cleaned, cpc,
    \* ---- generate_vtt_content ----
    subtitles, lines, k, vtt_content, vpc,
    \* ---- parse_ass_file ----
    flines, pos, in_events_section, parsed, ppc

runVars   == <<files, suffix, fs, n, pc, exc, outcome, log>>
timeVars  == <<ass_time, vtt_time, tpc>>
cleanVars == <<text, cleaned, cpc>>
vttVars   == <<subtitles, lines, k, vtt_content, vpc>>
parseVars == <<flines, pos, in_events_section, parsed, ppc>>
vars      == <<runVars, timeVars, cleanVars, vttVars, parseVars>>

-----------------------------------------------------------------------------
(* Bounds of the model.                                                    *)

MaxFiles      == 2   \* longest list of input files
MaxHourDigits == 3   \* most digits of the hours field of a valid timestamp
MaxRawLen     == 6   \* longest arbitrary (mostly malformed) timestamp
MaxTextLen    == 3   \* longest brace-free text X / arbitrary raw text
MaxEvents     == 2   \* longest list of subtitle events
MaxLines      == 3   \* longest input file, in lines

-----------------------------------------------------------------------------
(* Python str and int primitives.                                          *)

Digits == <<"0", "1", "2", "3", "4", "5", "6", "7", "8", "9">>

DigitSet == {Digits[d] : d \in 1..10}

Whitespace == {" ", "\t", "\n", "\r"}

\* s[a:b] of Python with 1-based inclusive bounds
Sub(s, a, b) == IF a > b THEN <<>> ELSE SubSeq(s, a, b)

\* s.find(c, from): the first position >= from holding c, 0 when there is none
Find(s, c, from) ==
    LET hits == {p \in from..Len(s) : s[p] = c}
    IN IF hits = {} THEN 0 ELSE CHOOSE p \in hits : \A q \in hits : p <= q

\* s.rfind(c): the last position holding c, 0 when there is none
RFind(s, c) ==
    LET hits == {p \in 1..Len(s) : s[p] = c}
    IN IF hits = {} THEN 0 ELSE CHOOSE p \in hits : \A q \in hits : p >= q

\* s.startswith(p)
StartsWith(s, p) == Len(s) >= Len(p) /\ Sub(s, 1, Len(p)) = p

\* s.strip()
Strip(s) ==
    LET keep == {p \in 1..Len(s) : s[p] \notin Whitespace}
    IN IF keep = {} THEN <<>>
       ELSE Sub(s, CHOOSE p \in keep : \A q \in keep : p <= q,
                   CHOOSE p \in keep : \A q \in keep : p >= q)

\* s.split(c, m): at most m splits, m < 0 for no limit
RECURSIVE SplitMax(_, _, _)
SplitMax(s, c, m) ==
    LET p == Find(s, c, 1)
    IN IF m = 0 \/ p = 0 THEN <<s>>
       ELSE <<Sub(s, 1, p - 1)>> \o SplitMax(Sub(s, p + 1, Len(s)), c, m - 1)

\* s.split(c)
Split(s, c) == SplitMax(s, c, -1)

\* c.join(parts)
RECURSIVE Join(_, _)
Join(parts, c) ==
    IF parts = <<>> THEN <<>>
    ELSE IF Len(parts) = 1 THEN parts[1]
    ELSE parts[1] \o <<c>> \o Join(Tail(parts), c)

DigitVal(c) == (CHOOSE d \in 1..10 : Digits[d] = c) - 1

RECURSIVE DigitsVal(_)
DigitsVal(s) ==
    IF s = <<>> THEN 0
    ELSE 10 * DigitsVal(Sub(s, 1, Len(s) - 1)) + DigitVal(s[Len(s)])

AllDigits(s) == s # <<>> /\ \A p \in 1..Len(s) : s[p] \in DigitSet

\* int(s): surrounding whitespace is dropped, one sign is allowed, the rest
\* must be decimal digits; anything else raises ValueError.
PyInt(s) ==
    LET t == Strip(s)
        signed == t # <<>> /\ t[1] \in {"+", "-"}
        body == IF signed THEN Tail(t) ELSE t
    IN IF AllDigits(body)
       THEN [raised |-> FALSE,
             value |-> IF signed /\ t[1] = "-" THEN 0 - DigitsVal(body)
                       ELSE DigitsVal(body)]
       ELSE [raised |-> TRUE, value |-> 0]

\* str(v) for v >= 0
RECURSIVE NatStr(_)
NatStr(v) ==
    IF v < 10 THEN <<Digits[v + 1]>>
    ELSE NatStr(v \div 10) \o <<Digits[(v % 10) + 1]>>

\* f"{v}"
IntStr(v) == IF v < 0 THEN <<"-">> \o NatStr(0 - v) ELSE NatStr(v)

\* f"{v:02d}": the sign first, then zeros up to a total width of two
Format02d(v) ==
    LET d == NatStr(IF v < 0 THEN 0 - v ELSE v)
    IN IF v < 0 THEN <<"-">> \o d
       ELSE IF Len(d) < 2 THEN <<"0">> \o d ELSE d

\* every sequence over alphabet of length lo..hi
Strings(alphabet, lo, hi) == UNION {[1..len -> alphabet] : len \in lo..hi}

-----------------------------------------------------------------------------
(* ass_time_to_vtt_time (lines 91-97).  A tuple unpacking of the wrong     *)
(* length and int() of a non-number raise ValueError.                      *)

AssTimeMutantPrefixZero(t) ==
    LET f == Split(t, ":")
    IN IF Len(f) # 3 THEN [raised |-> TRUE, value |-> <<>>]
       ELSE LET g == Split(f[3], ".")
            IN IF Len(g) # 2 THEN [raised |-> TRUE, value |-> <<>>]
               ELSE LET milliseconds == <<"0">> \o g[2]
                        h == PyInt(f[1])
                        m == PyInt(f[2])
                        s == PyInt(g[1])
                    IN IF h.raised \/ m.raised \/ s.raised
                       THEN [raised |-> TRUE, value |-> <<>>]
                       ELSE [raised |-> FALSE,
                             value |-> Format02d(h.value) \o <<":">>
                                       \o Format02d(m.value) \o <<":">>
                                       \o Format02d(s.value) \o <<".">>
                                       \o milliseconds]

AssTimeToVttTime(t) ==
    LET f == Split(t, ":")
    IN IF Len(f) # 3 THEN [raised |-> TRUE, value |-> <<>>]
       ELSE LET g == Split(f[3], ".")
            IN IF Len(g) # 2 THEN [raised |-> TRUE, value |-> <<>>]
               ELSE LET milliseconds == g[2] \o <<"0">>
                        h == PyInt(f[1])
                        m == PyInt(f[2])
                        s == PyInt(g[1])
                    IN IF h.raised \/ m.raised \/ s.raised
                       THEN [raised |-> TRUE, value |-> <<>>]
                       ELSE [raised |-> FALSE,
                             value |-> Format02d(h.value) \o <<":">>
                                       \o Format02d(m.value) \o <<":">>
                                       \o Format02d(s.value) \o <<".">>
                                       \o milliseconds]

\* ass_time_to_vtt_time called on self's argument
CallAssTime ==
    /\ tpc = "start"
    /\ vtt_time' = AssTimeToVttTime(ass_time)
    /\ tpc' = "done"
    /\ UNCHANGED <<ass_time, runVars, cleanVars, vttVars, parseVars>>

-----------------------------------------------------------------------------
(* clean_ass_formatting (lines 149-173).                                   *)

\* The regular expressions of lines 152 and 167-169, character by character.
StripPattern ==
    <<"\\", "{", "\\", "\\", "[", "^", "}", "]", "*", "\\", "}">>

PairPattern(tag) ==
    <<"\\", "{", "\\", "\\", tag, "1", "?", "\\", "}",
      "(", "[", "^", "]", "*", "?", ")",
      "\\", "{", "\\", "\\", tag, "0", "\\", "}">>

\* re's parser inside a character set opened before position `first`: a "]"
\* closes the set only when it is not the set's first item; reaching the end
\* of the pattern raises re.error("unterminated character set").
RECURSIVE SetEnd(_, _, _)
SetEnd(p, first, q) ==
    IF q > Len(p) THEN 0
    ELSE IF p[q] = "]" /\ q > first THEN q
    ELSE IF p[q] = "\\" THEN SetEnd(p, first, q + 2)
    ELSE SetEnd(p, first, q + 1)

\* re.compile(p) raises re.error (only the character-set rule is modelled;
\* the patterns of this program are otherwise well formed)
RECURSIVE ReError(_, _)
ReError(p, i) ==
    IF i > Len(p) THEN FALSE
    ELSE IF p[i] = "\\" THEN ReError(p, i + 2)
    ELSE IF p[i] = "["
         THEN LET first == IF i + 1 <= Len(p) /\ p[i + 1] = "^"
                           THEN i + 2 ELSE i + 1
                  e == SetEnd(p, first, first)
              IN IF e = 0 THEN TRUE ELSE ReError(p, e + 1)
    ELSE ReError(p, i + 1)

\* re.sub(r'\{\\[^}]*\}', '', s): leftmost matches, left to right
RECURSIVE RegexStrip(_)
RegexStrip(s) ==
    IF s = <<>> THEN <<>>
    ELSE IF Len(s) >= 2 /\ s[1] = "{" /\ s[2] = "\\" /\ Find(s, "}", 3) # 0
         THEN RegexStrip(Sub(s, Find(s, "}", 3) + 1, Len(s)))
         ELSE <<s[1]>> \o RegexStrip(Tail(s))

\* the while loop of lines 154-164, taken when line 152 raises re.error
RECURSIVE ScanStrip(_, _)
ScanStrip(s, i) ==
    IF i > Len(s) THEN <<>>
    ELSE IF s[i] = "{" /\ i + 1 <= Len(s) /\ s[i + 1] = "\\" /\ Find(s, "}", i) # 0
         THEN ScanStrip(s, Find(s, "}", i) + 1)
         ELSE <<s[i]>> \o ScanStrip(s, i + 1)

\* the first position >= from where pat occurs in s, 0 when there is none
FindSeq(s, pat, from) ==
    LET hits == {p \in from..(Len(s) - Len(pat) + 1) :
                    Sub(s, p, p + Len(pat) - 1) = pat}
    IN IF hits = {} THEN 0 ELSE CHOOSE p \in hits : \A q \in hits : p <= q

OpenTag(tag)     == <<"{", "\\", tag, "1", "}">>
OpenTagBare(tag) == <<"{", "\\", tag, "}">>
CloseTag(tag)    == <<"{", "\\", tag, "0", "}">>
HtmlOpen(tag)    == <<"<", tag, ">">>
HtmlClose(tag)   == <<"<", "/", tag, ">">>

\* What re.sub of a pair pattern would do were the pattern to compile, with
\* ([^]*?) read as the shortest run of any characters: the leftmost opening
\* tag and the nearest closing tag after it become <tag>...</tag>.
RECURSIVE PairSub(_, _)
PairSub(s, tag) ==
    LET cands == {p \in 1..Len(s) :
                    \/ (Sub(s, p, p + 4) = OpenTag(tag)
                        /\ FindSeq(s, CloseTag(tag), p + 5) # 0)
                    \/ (Sub(s, p, p + 3) = OpenTagBare(tag)
                        /\ FindSeq(s, CloseTag(tag), p + 4) # 0)}
    IN IF cands = {} THEN s
       ELSE LET p == CHOOSE x \in cands : \A y \in cands : x <= y
                body == IF Sub(s, p, p + 4) = OpenTag(tag) THEN p + 5 ELSE p + 4
                c == FindSeq(s, CloseTag(tag), body)
            IN Sub(s, 1, p - 1) \o HtmlOpen(tag) \o Sub(s, body, c - 1)
               \o HtmlClose(tag) \o PairSub(Sub(s, c + 5, Len(s)), tag)

\* lines 166-171: the three substitutions share one try block, so the first
\* re.error leaves the text as the first stage returned it
PairStage(s) ==
    IF ReError(PairPattern("b"), 1) THEN s
    ELSE LET b == PairSub(s, "b")
         IN IF ReError(PairPattern("i"), 1) THEN b
            ELSE LET i == PairSub(b, "i")
                 IN IF ReError(PairPattern("u"), 1) THEN i
                    ELSE PairSub(i, "u")

CleanAssFormatting(s) ==
    PairStage(IF ReError(StripPattern, 1) THEN ScanStrip(s, 1) ELSE RegexStrip(s))

\* clean_ass_formatting called on self's argument
CallClean ==
    /\ cpc = "start"
    /\ cleaned' = CleanAssFormatting(text)
    /\ cpc' = "done"
    /\ UNCHANGED <<text, runVars, timeVars, vttVars, parseVars>>

-----------------------------------------------------------------------------
(* Idle values: what a component's variables hold in the specifications    *)
(* of the other components.                                                *)

IdleRun ==
    /\ files = <<>> /\ suffix = <<>> /\ fs = <<>> /\ n = 0
    /\ pc = "idle" /\ exc = "" /\ outcome = <<>> /\ log = <<>>

IdleTime ==
    ass_time = <<>> /\ vtt_time = [raised |-> FALSE, value |-> <<>>] /\ tpc = "idle"

IdleClean == text = <<>> /\ cleaned = <<>> /\ cpc = "idle"

IdleVtt ==
    /\ subtitles = <<>> /\ lines = <<>> /\ k = 0
    /\ vtt_content = <<>> /\ vpc = "idle"

IdleParse ==
    /\ flines = <<>> /\ pos = 0 /\ in_events_section = FALSE
    /\ parsed = <<>> /\ ppc = "idle"

-----------------------------------------------------------------------------
(* SpecTime: ass_time_to_vtt_time on one timestamp.                        *)

FieldDigits == {"0", "5", "9"}

\* H:MM:SS.CC with one to MaxHourDigits hour digits
ValidTimes ==
    {h \o <<":">> \o m \o <<":">> \o s \o <<".">> \o c :
        h \in Strings(FieldDigits, 1, MaxHourDigits),
        m \in Strings(FieldDigits, 2, 2),
        s \in Strings(FieldDigits, 2, 2),
        c \in Strings(FieldDigits, 2, 2)}

\* arbitrary short strings: 1:2, abc, 1:1:1.1 and the like
RawTimes == Strings({"1", ":", ".", "a"}, 0, MaxRawLen)

InitTime ==
    /\ ass_time \in ValidTimes \cup RawTimes
    /\ vtt_time = [raised |-> FALSE, value |-> <<>>]
    /\ tpc = "start"
    /\ IdleRun /\ IdleClean /\ IdleVtt /\ IdleParse

NextTime == CallAssTime

SpecTime == InitTime /\ [][NextTime]_vars

\* t has the shape H+:MM:SS.CC, read off by position from its end
ValidAss(t) ==
    LET len == Len(t)
    IN /\ len >= 10
       /\ t[len - 2] = "." /\ t[len - 5] = ":" /\ t[len - 8] = ":"
       /\ AllDigits(Sub(t, 1, len - 9))
       /\ AllDigits(Sub(t, len - 7, len - 6))
       /\ AllDigits(Sub(t, len - 4, len - 3))
       /\ AllDigits(Sub(t, len - 1, len))

\* t does not hold exactly two colons, or holds no "." after the last one
Malformed(t) ==
    \/ Cardinality({p \in 1..Len(t) : t[p] = ":"}) # 2
    \/ ~ \E p \in 1..Len(t) :
            t[p] = "." /\ \A q \in p..Len(t) : t[q] # ":"

\* o is HH+:MM:SS.mmm carrying the numbers of the valid timestamp t
VttOf(t, o) ==
    LET len == Len(t)
        m == Len(o)
        hh == Sub(o, 1, m - 10)
    IN /\ m >= 12
       /\ o[m - 3] = "." /\ o[m - 6] = ":" /\ o[m - 9] = ":"
       /\ AllDigits(hh) /\ Len(hh) >= 2
       /\ (Len(hh) > 2 => hh[1] # "0")
       /\ DigitsVal(hh) = DigitsVal(Sub(t, 1, len - 9))
       /\ AllDigits(Sub(o, m - 8, m - 7))
       /\ DigitsVal(Sub(o, m - 8, m - 7)) = DigitsVal(Sub(t, len - 7, len - 6))
       /\ AllDigits(Sub(o, m - 5, m - 4))
       /\ DigitsVal(Sub(o, m - 5, m - 4)) = DigitsVal(Sub(t, len - 4, len - 3))
       /\ AllDigits(Sub(o, m - 2, m))
       /\ DigitsVal(Sub(o, m - 2, m)) = 10 * DigitsVal(Sub(t, len - 1, len))

\* C7: for every valid ASS timestamp H:MM:SS.CC the result is HH:MM:SS.mmm
\* with mmm = CC*10 on exactly three digits and hours, minutes and seconds
\* numerically preserved on at least two digits; an input that does not
\* split into three colon-separated fields, or whose seconds field lacks a
\* ".", raises instead of returning a value.
C7_TimestampConversion ==
    tpc = "done" =>
        /\ ValidAss(ass_time) =>
              ~vtt_time.raised /\ VttOf(ass_time, vtt_time.value)
        /\ Malformed(ass_time) => vtt_time.raised

\* a valid timestamp whose hours need three digits and whose centiseconds
\* start with a zero has been converted
C7_Witness ==
    /\ tpc = "done" /\ ValidAss(ass_time) /\ ~vtt_time.raised
    /\ Len(ass_time) = 12 /\ ass_time[1] # "0"
    /\ ass_time[Len(ass_time) - 1] = "0" /\ ass_time[Len(ass_time)] = "5"

-----------------------------------------------------------------------------
(* SpecClean: clean_ass_formatting on one text.                            *)

Tags == {"b", "i", "u"}

\* brace-free texts X
PlainTexts == Strings({"x", "\\", "<", " "}, 0, MaxTextLen)

TaggedTexts == {OpenTag(t) \o x \o CloseTag(t) : t \in Tags, x \in PlainTexts}

RawTexts == Strings({"{", "}", "\\", "b", "x"}, 0, MaxTextLen)

InitClean ==
    /\ text \in TaggedTexts \cup RawTexts
    /\ cleaned = <<>>
    /\ cpc = "start"
    /\ IdleRun /\ IdleTime /\ IdleVtt /\ IdleParse

NextClean == CallClean

SpecClean == InitClean /\ [][NextClean]_vars

\* C8: for every brace-free X, cleaning {\b1}X{\b0} returns <b>X</b>, and
\* likewise for i and u (the call itself always returns).
C8_PairedTagTranslation ==
    cpc = "done" =>
        \A t \in Tags : \A x \in PlainTexts :
            text = OpenTag(t) \o x \o CloseTag(t) =>
                cleaned = HtmlOpen(t) \o x \o HtmlClose(t)

-----------------------------------------------------------------------------
(* generate_vtt_content (lines 175-191), one loop iteration per step.      *)

Arrow == <<" ", "-", "-", ">", " ">>

\* A variant of the try body that appends the cue number as soon as the
\* start time is converted.
TryBodyMutantEarlyAppend(i, ev) ==
    LET vtt_start == AssTimeToVttTime(ev[1])
    IN IF vtt_start.raised THEN [raised |-> TRUE, appended |-> <<>>]
       ELSE LET vtt_end == AssTimeToVttTime(ev[2])
            IN IF vtt_end.raised
               THEN [raised |-> TRUE, appended |-> <<IntStr(i)>>]
               ELSE [raised |-> FALSE,
                     appended |-> <<IntStr(i),
                                    vtt_start.value \o Arrow \o vtt_end.value,
                                    ev[3],
                                    <<>>>>]

\* The try body of lines 181-187 for the i-th event (i counts from 1, as
\* enumerate(subtitles, 1) does): whether it raised, and the lines it had
\* appended by then.
TryBody(i, ev) ==
    LET vtt_start == AssTimeToVttTime(ev[1])
    IN IF vtt_start.raised THEN [raised |-> TRUE, appended |-> <<>>]
       ELSE LET vtt_end == AssTimeToVttTime(ev[2])
            IN IF vtt_end.raised THEN [raised |-> TRUE, appended |-> <<>>]
               ELSE [raised |-> FALSE,
                     appended |-> <<IntStr(i),
                                    vtt_start.value \o Arrow \o vtt_end.value,
                                    ev[3],
                                    <<>>>>]

\* lines = ['WEBVTT FILE', '']
VttHeader ==
    << <<"W", "E", "B", "V", "T", "T", " ", "F", "I", "L", "E">>, <<>> >>

\* One iteration of the for loop; `except Exception: continue` swallows
\* whatever the try body raised.
GenEvent ==
    /\ vpc = "loop"
    /\ k < Len(subtitles)
    /\ LET r == TryBody(k + 1, subtitles[k + 1])
       IN lines' = lines \o r.appended
    /\ k' = k + 1
    /\ UNCHANGED <<subtitles, vtt_content, vpc>>
    /\ UNCHANGED <<runVars, timeVars, cleanVars, parseVars>>

\* return '\n'.join(lines)
GenReturn ==
    /\ vpc = "loop"
    /\ k = Len(subtitles)
    /\ vtt_content' = Join(lines, "\n")
    /\ vpc' = "done"
    /\ UNCHANGED <<subtitles, lines, k>>
    /\ UNCHANGED <<runVars, timeVars, cleanVars, parseVars>>

\* timestamps an event may carry: two valid ones, and the malformed 1:2 and abc
TimePool ==
    { <<"0", ":", "0", "0", ":", "0", "1", ".", "0", "0">>,
      <<"1", ":", "0", "2", ":", "0", "3", ".", "4", "5">>,
      <<"1", ":", "2">>,
      <<"a", "b", "c">> }

TextPool == { <<"H", "i">>, <<"<", "b", ">", "y", "<", "/", "b", ">">> }

EventPool == TimePool \X TimePool \X TextPool

InitVtt ==
    /\ subtitles \in UNION {[1..len -> EventPool] : len \in 0..MaxEvents}
    /\ lines = VttHeader
    /\ k = 0
    /\ vtt_content = <<>>
    /\ vpc = "loop"
    /\ IdleRun /\ IdleTime /\ IdleClean /\ IdleParse

NextVtt == GenEvent \/ GenReturn

SpecVtt == InitVtt /\ [][NextVtt]_vars

\* the document read back as lines
DocLines == Split(vtt_content, "\n")

\* C5: in the document the cue numbers are 1, 2, ..., k consecutively, k
\* being the number of cues emitted, also when events were skipped.  A cue
\* is four lines (number, timing, text, blank) after the two header lines.
C5_CueNumbersConsecutive ==
    vpc = "done" =>
        \A j \in 1..((Len(DocLines) - 2) \div 4) :
            DocLines[4 * j - 1] = IntStr(j)

\* line is "<s> --> <e>" with s and e the conversions of the valid start
\* and end timestamps of ev
TimingOf(ev, line) ==
    LET p == Find(line, " ", 1)
    IN /\ p # 0
       /\ Sub(line, p, p + 4) = Arrow
       /\ VttOf(ev[1], Sub(line, 1, p - 1))
       /\ VttOf(ev[2], Sub(line, p + 5, Len(line)))

\* C6: an event whose start or end timestamp is malformed contributes
\* nothing to the document (also when only the end is), an event with
\* well-formed timestamps contributes its cue -- converted times, then its
\* text, then a blank line -- after everything contributed so far, the
\* document returned is exactly those lines, and the call returns for every
\* list of events.
C6_PerEventSkip ==
    [][/\ (vpc = "loop" /\ k < Len(subtitles)) =>
            LET ev == subtitles[k + 1]
                len == Len(lines)
            IN /\ k' = k + 1 /\ vpc' = "loop"
               /\ (Malformed(ev[1]) \/ Malformed(ev[2])) => lines' = lines
               /\ (ValidAss(ev[1]) /\ ValidAss(ev[2])) =>
                     /\ Len(lines') = len + 4
                     /\ SubSeq(lines', 1, len) = lines
                     /\ TimingOf(ev, lines'[len + 2])
                     /\ lines'[len + 3] = ev[3]
                     /\ lines'[len + 4] = <<>>
       /\ (vpc = "loop" /\ k = Len(subtitles)) =>
            /\ vpc' = "done"
            /\ Split(vtt_content', "\n") = lines
      ]_vars

\* a document was returned that holds one cue, from a list with an event
\* whose end timestamp alone is malformed
C6_Witness ==
    /\ vpc = "done"
    /\ Len(DocLines) = 6
    /\ \E j \in 1..Len(subtitles) :
          ValidAss(subtitles[j][1]) /\ Malformed(subtitles[j][2])
    /\ \E j \in 1..Len(subtitles) :
          ValidAss(subtitles[j][1]) /\ ValidAss(subtitles[j][2])

-----------------------------------------------------------------------------
(* parse_ass_file (lines 99-147), one line of the file per step.  The file *)
(* is the list of its decoded lines; a file that cannot be decoded raises  *)
(* UnicodeDecodeError under both codecs and is modelled in Spec.           *)

EventsHdr   == <<"[", "E", "v", "e", "n", "t", "s", "]">>
DialoguePfx == <<"D", "i", "a", "l", "o", "g", "u", "e", ":">>

MaxSplit == 9     \* line.split(',', 9)
MinParts == 10    \* len(parts) >= 10

\* A variant that enters the section only on a line equal to [Events].
EntersEventsMutantExact(line) == line = EventsHdr

\* line 109: line.startswith('[Events]')
EntersEvents(line) == StartsWith(line, EventsHdr)

\* line 113
LeavesEvents(line, inside) ==
    StartsWith(line, <<"[">>) /\ inside /\ ~StartsWith(line, EventsHdr)

\* lines 116-124: the events a line adds to subtitles
DialogueEvents(line, inside) ==
    IF inside /\ StartsWith(line, DialoguePfx)
    THEN LET parts == SplitMax(line, ",", MaxSplit)
         IN IF Len(parts) >= MinParts
            THEN << <<Strip(parts[2]), Strip(parts[3]),
                      CleanAssFormatting(Strip(parts[10]))>> >>
            ELSE <<>>
    ELSE <<>>

\* one iteration of `for line in f`
ParseLine ==
    /\ ppc = "scan"
    /\ pos < Len(flines)
    /\ pos' = pos + 1
    /\ LET line == Strip(flines[pos + 1])
       IN IF EntersEvents(line)
          THEN /\ in_events_section' = TRUE
               /\ UNCHANGED <<parsed, ppc>>
          ELSE IF LeavesEvents(line, in_events_section)
          THEN /\ ppc' = "broke"
               /\ UNCHANGED <<parsed, in_events_section>>
          ELSE /\ parsed' = parsed \o DialogueEvents(line, in_events_section)
               /\ UNCHANGED <<in_events_section, ppc>>
    /\ UNCHANGED flines
    /\ UNCHANGED <<runVars, timeVars, cleanVars, vttVars>>

\* the loop is over (file exhausted, or break): return subtitles
ParseReturn ==
    /\ \/ ppc = "broke"
       \/ ppc = "scan" /\ pos = Len(flines)
    /\ ppc' = "done"
    /\ UNCHANGED <<flines, pos, in_events_section, parsed>>
    /\ UNCHANGED <<runVars, timeVars, cleanVars, vttVars>>

\* Dialogue:0, 1:2 ,3:4,,,,,,,{\i1}a,b{\i0}     (ten fields and a comma in the text)
DialogueLong ==
    DialoguePfx \o <<"0", ",", " ", "1", ":", "2", " ", ",", "3", ":", "4",
                     ",", ",", ",", ",", ",", ",", ",",
                     "{", "\\", "i", "1", "}", "a", ",", "b",
                     "{", "\\", "i", "0", "}">>

\* Dialogue:0,5,6,,,,,,,c     (exactly ten fields), indented
DialogueTen ==
    <<" ">> \o DialoguePfx \o <<"0", ",", "5", ",", "6",
                                ",", ",", ",", ",", ",", ",", ",", "c">>

\* Dialogue:0,7,8,,,,,,d      (nine fields)
DialogueNine ==
    DialoguePfx \o <<"0", ",", "7", ",", "8",
                     ",", ",", ",", ",", ",", ",", "d">>

LinePool ==
    { EventsHdr,
      EventsHdr \o <<"x">>,
      <<" ">> \o EventsHdr \o <<"\n">>,
      <<"[", "F", "]">>,
      DialogueLong, DialogueTen, DialogueNine,
      <<"F", "o", "r", "m", "a", "t", ":">> }

InitParse ==
    /\ flines \in UNION {[1..len -> LinePool] : len \in 0..MaxLines}
    /\ pos = 0
    /\ in_events_section = FALSE
    /\ parsed = <<>>
    /\ ppc = "scan"
    /\ IdleRun /\ IdleTime /\ IdleClean /\ IdleVtt

NextParse == ParseLine \/ ParseReturn

SpecParse == InitParse /\ [][NextParse]_vars

\* position of the i-th comma of line
NthComma(line, i) ==
    CHOOSE p \in 1..Len(line) :
        line[p] = "," /\ Cardinality({q \in 1..p : line[q] = ","}) = i

CommaCount(line) == Cardinality({p \in 1..Len(line) : line[p] = ","})

\* field 2, field 3 and everything after the ninth comma, trimmed and cleaned
EventOf(line) ==
    << Strip(Sub(line, NthComma(line, 1) + 1, NthComma(line, 2) - 1)),
       Strip(Sub(line, NthComma(line, 2) + 1, NthComma(line, 3) - 1)),
       CleanAssFormatting(Strip(Sub(line, NthComma(line, 9) + 1, Len(line)))) >>

Least(S) == CHOOSE x \in S : \A y \in S : x <= y

\* The events of a file, given which trimmed lines open the section: those
\* of the Dialogue: lines with at least nine commas that lie after the
\* first opening line and before the first later line that begins with "["
\* and does not open the section, in file order.
ExpectedEvents(fl, Opens(_)) ==
    LET S(j) == Strip(fl[j])
        enter == {j \in 1..Len(fl) : Opens(S(j))}
    IN IF enter = {} THEN <<>>
       ELSE LET first == Least(enter)
                stops == {j \in (first + 1)..Len(fl) :
                             StartsWith(S(j), <<"[">>) /\ ~Opens(S(j))}
                stop == IF stops = {} THEN Len(fl) + 1 ELSE Least(stops)
                acc == {j \in (first + 1)..(stop - 1) :
                           StartsWith(S(j), DialoguePfx) /\ CommaCount(S(j)) >= 9}
                nth(i) == CHOOSE j \in acc :
                              Cardinality({x \in acc : x <= j}) = i
            IN [i \in 1..Cardinality(acc) |-> EventOf(S(nth(i)))]

IsExactHeader(line) == line = EventsHdr

BeginsWithHeader(line) == StartsWith(line, EventsHdr)

\* C9 as stated: the scanner enters the Events section only on a line that
\* is exactly [Events] (surrounding whitespace aside), stops at the first
\* other line beginning with "[" seen inside, and returns, in file order,
\* the events of the Dialogue: lines with at least 10 fields in between.
C9_SectionScanning ==
    /\ in_events_section =>
          \E j \in 1..pos : IsExactHeader(Strip(flines[j]))
    /\ ppc = "done" => parsed = ExpectedEvents(flines, IsExactHeader)

\* C9 as amended: the scanner enters the Events section on any line that,
\* trimmed, begins with [Events]; the rest as stated.
C9_SectionScanningPrefix ==
    /\ in_events_section =>
          \E j \in 1..pos : BeginsWithHeader(Strip(flines[j]))
    /\ ppc = "done" => parsed = ExpectedEvents(flines, BeginsWithHeader)

\* a scan that entered the section on a line that only begins with
\* [Events], and returned an event read after it
C9_Witness ==
    /\ ppc = "done"
    /\ Len(parsed) >= 1
    /\ ~ \E j \in 1..Len(flines) : IsExactHeader(Strip(flines[j]))

-----------------------------------------------------------------------------
(* ConversionWorker.run (lines 78-89) and convert_ass_to_vtt (lines        *)
(* 193-207), one statement with an observable effect per step.             *)
(*                                                                         *)
(* The file system maps a path to the kind of its content:                 *)
(*   "missing"      no such file                                           *)
(*   "ass"          a decodable subtitle file                              *)
(*   "undecodable"  bytes that are not UTF-8                               *)
(*   "vtt"          a document written by this run                         *)
(*   "partial"      a file this run opened for writing and failed to fill  *)
(* log records, in order, every call of convert_ass_to_vtt, every read and *)
(* write of a file and every signal emitted.                               *)

\* os.path.splitext(p)[0]: the extension starts at the last dot of the last
\* path component, leading dots of that component aside
SplitextBase(p) ==
    LET sepIndex == RFind(p, "/")
        dotIndex == RFind(p, ".")
    IN IF dotIndex > sepIndex
          /\ \E q \in (sepIndex + 1)..(dotIndex - 1) : p[q] # "."
       THEN Sub(p, 1, dotIndex - 1)
       ELSE p

\* os.path.basename(p)
Basename(p) == Sub(p, RFind(p, "/") + 1, Len(p))

\* lines 201-202: f"{base_name}.{suffix}"
OutPath(p, sfx) == SplitextBase(p) \o <<".">> \o sfx

\* A variant of the loop that walks the list from its end.
FileIndexMutantReversed(m) == Len(files) - m + 1

\* line 80: the list position of the m-th iteration of enumerate(self.files)
FileIndex(m) == m

cur == FileIndex(n)

Entry(kind, idx, name, value, cause) ==
    [kind |-> kind, idx |-> idx, name |-> name, value |-> value, cause |-> cause]

\* line 80: the loop takes the next file; line 82 calls convert_ass_to_vtt
NextFile ==
    /\ pc = "loop"
    /\ n < Len(files)
    /\ n' = n + 1
    /\ pc' = "exists"
    /\ log' = Append(log, Entry("call", FileIndex(n + 1), files[FileIndex(n + 1)], 0, ""))
    /\ UNCHANGED <<files, suffix, fs, exc, outcome>>
    /\ UNCHANGED <<timeVars, cleanVars, vttVars, parseVars>>

\* lines 195-196
CheckExists ==
    /\ pc = "exists"
    /\ IF fs[files[cur]] = "missing"
       THEN /\ exc' = "FileNotFoundError"
            /\ outcome' = [outcome EXCEPT ![cur] = "raised"]
            /\ pc' = "except"
       ELSE /\ pc' = "parse"
            /\ UNCHANGED <<exc, outcome>>
    /\ UNCHANGED <<files, suffix, fs, n, log>>
    /\ UNCHANGED <<timeVars, cleanVars, vttVars, parseVars>>

\* lines 198-199: parse_ass_file reads the input (both codecs reject bytes
\* that are not UTF-8), generate_vtt_content builds the document
ParseFile ==
    /\ pc = "parse"
    /\ log' = Append(log, Entry("read", cur, files[cur], 0, ""))
    /\ IF fs[files[cur]] = "undecodable"
       THEN /\ exc' = "UnicodeDecodeError"
            /\ outcome' = [outcome EXCEPT ![cur] = "raised"]
            /\ pc' = "except"
       ELSE /\ pc' = "write"
            /\ UNCHANGED <<exc, outcome>>
    /\ UNCHANGED <<files, suffix, fs, n>>
    /\ UNCHANGED <<timeVars, cleanVars, vttVars, parseVars>>

\* lines 201-207: open(vtt_file_path, 'w') and f.write.  The open may fail
\* (nothing changes), the write may fail after the open truncated the file,
\* or both succeed and the call returns.
WriteFile ==
    /\ pc = "write"
    /\ LET out == OutPath(files[cur], suffix)
       IN \/ /\ fs' = [fs EXCEPT ![out] = "vtt"]
             /\ log' = Append(log, Entry("write", cur, out, 0, ""))
             /\ outcome' = [outcome EXCEPT ![cur] = "returned"]
             /\ pc' = "emit_converted"
             /\ UNCHANGED exc
          \/ /\ exc' = "OSError"
             /\ outcome' = [outcome EXCEPT ![cur] = "raised"]
             /\ pc' = "except"
             /\ \/ UNCHANGED <<fs, log>>
                \/ /\ fs' = [fs EXCEPT ![out] = "partial"]
                   /\ log' = Append(log, Entry("write", cur, out, 0, "OSError"))
    /\ UNCHANGED <<files, suffix, n>>
    /\ UNCHANGED <<timeVars, cleanVars, vttVars, parseVars>>

\* line 83
EmitConverted ==
    /\ pc = "emit_converted"
    /\ log' = Append(log, Entry("file_converted", cur, Basename(files[cur]), 0, ""))
    /\ pc' = "emit_progress"
    /\ UNCHANGED <<files, suffix, fs, n, exc, outcome>>
    /\ UNCHANGED <<timeVars, cleanVars, vttVars, parseVars>>

\* lines 84-85: int((i + 1) / total_files * 100)
EmitProgress ==
    /\ pc = "emit_progress"
    /\ log' = Append(log, Entry("progress_updated", cur, <<>>,
                                (n * 100) \div Len(files), ""))
    /\ pc' = "loop"
    /\ UNCHANGED <<files, suffix, fs, n, exc, outcome>>
    /\ UNCHANGED <<timeVars, cleanVars, vttVars, parseVars>>

\* A variant of the handler that leaves the loop after reporting.
EmitErrorMutantBreak ==
    /\ pc = "except"
    /\ log' = Append(log, Entry("error_occurred", cur, Basename(files[cur]), 0, exc))
    /\ exc' = ""
    /\ n' = Len(files)
    /\ pc' = "loop"
    /\ UNCHANGED <<files, suffix, fs, outcome>>
    /\ UNCHANGED <<timeVars, cleanVars, vttVars, parseVars>>

\* A variant of the handler that lets FileNotFoundError through, which ends
\* the thread.
EmitErrorMutantUncaught ==
    /\ pc = "except"
    /\ IF exc = "FileNotFoundError"
       THEN pc' = "done" /\ UNCHANGED <<log, exc>>
       ELSE /\ log' = Append(log, Entry("error_occurred", cur,
                                        Basename(files[cur]), 0, exc))
            /\ exc' = ""
            /\ pc' = "loop"
    /\ UNCHANGED <<files, suffix, fs, n, outcome>>
    /\ UNCHANGED <<timeVars, cleanVars, vttVars, parseVars>>

\* lines 86-87: except Exception as e
EmitError ==
    /\ pc = "except"
    /\ log' = Append(log, Entry("error_occurred", cur, Basename(files[cur]), 0, exc))
    /\ exc' = ""
    /\ pc' = "loop"
    /\ UNCHANGED <<files, suffix, fs, n, outcome>>
    /\ UNCHANGED <<timeVars, cleanVars, vttVars, parseVars>>

\* line 89
EmitFinished ==
    /\ pc = "loop"
    /\ n = Len(files)
    /\ log' = Append(log, Entry("conversion_finished", 0, <<>>, 0, ""))
    /\ pc' = "done"
    /\ UNCHANGED <<files, suffix, fs, n, exc, outcome>>
    /\ UNCHANGED <<timeVars, cleanVars, vttVars, parseVars>>

\* a.s  a.v.s  .s  d.d/a
PathPool ==
    { <<"a", ".", "s">>, <<"a", ".", "v", ".", "s">>,
      <<".", "s">>, <<"d", ".", "d", "/", "a">> }

\* v  s  v.s
SuffixPool == { <<"v">>, <<"s">>, <<"v", ".", "s">> }

AllPaths == PathPool \cup {OutPath(p, sfx) : p \in PathPool, sfx \in SuffixPool}

Range(f) == {f[x] : x \in DOMAIN f}

\* AssToVttConverter.convert_files (lines 360-380) starts the worker with a
\* non-empty list, which add_files (lines 344-346) keeps free of
\* duplicates, and a non-empty stripped suffix.
Init ==
    /\ files \in {f \in UNION {[1..len -> PathPool] : len \in 1..MaxFiles} :
                    \A a, b \in DOMAIN f : a # b => f[a] # f[b]}
    /\ suffix \in SuffixPool
    /\ \E kinds \in [Range(files) -> {"missing", "ass", "undecodable"}] :
          fs = [p \in AllPaths |->
                   IF p \in Range(files) THEN kinds[p] ELSE "missing"]
    /\ n = 0
    /\ pc = "loop"
    /\ exc = ""
    /\ outcome = [x \in DOMAIN files |-> ""]
    /\ log = <<>>
    /\ IdleTime /\ IdleClean /\ IdleVtt /\ IdleParse

Next ==
    \/ NextFile
    \/ CheckExists
    \/ ParseFile
    \/ WriteFile
    \/ EmitConverted
    \/ EmitProgress
    \/ EmitError
    \/ EmitFinished

Spec == Init /\ [][Next]_vars

\* The worker is a thread of its own that never waits for another thread:
\* as long as it has a step to take, it takes one.
FairSpec == Spec /\ WF_vars(Next)

-----------------------------------------------------------------------------
(* Properties of the batch.                                                *)

\* positions of the log holding an entry of this kind for this file
At(kind, idx) == {p \in 1..Len(log) : log[p].kind = kind /\ log[p].idx = idx}

Count(kind, idx) == Cardinality(At(kind, idx))

Progress == {p \in 1..Len(log) : log[p].kind = "progress_updated"}

\* C1: each of the N files is attempted exactly once; a failing file gives
\* exactly one error notification (naming the file) and no file-converted
\* notification, a succeeding file exactly one file-converted notification
\* and no error notification; a failure stops no later file from being
\* attempted.
C1_FailureIsolation ==
    \A idx \in 1..Len(files) :
        /\ Count("call", idx) <= 1
        /\ Count("error_occurred", idx) <= 1
        /\ Count("file_converted", idx) <= 1
        /\ outcome[idx] = "raised" => Count("file_converted", idx) = 0
        /\ outcome[idx] = "returned" => Count("error_occurred", idx) = 0
        /\ \A p \in At("error_occurred", idx) \cup At("file_converted", idx) :
              log[p].name = Basename(files[idx])
        /\ pc = "done" =>
              /\ Count("call", idx) = 1
              /\ outcome[idx] \in {"raised", "returned"}
              /\ outcome[idx] = "raised" => Count("error_occurred", idx) = 1
              /\ outcome[idx] = "returned" => Count("file_converted", idx) = 1

\* a finished batch whose first file failed and whose second file succeeded
C1_Witness ==
    /\ pc = "done"
    /\ Len(files) >= 2
    /\ outcome[1] = "raised"
    /\ outcome[2] = "returned"

\* C2: the progress emitted never decreases and reaches 100 exactly when
\* the last task has been attempted, whether it succeeded or failed: a
\* finished batch has emitted 100, and 100 is not emitted before the last
\* file's attempt is over.
C2_ProgressReachesFull ==
    /\ \A a, b \in Progress : a < b => log[a].value <= log[b].value
    /\ \A a \in Progress :
          log[a].value = 100 => outcome[Len(files)] # ""
    /\ pc = "done" => \E a \in Progress : log[a].value = 100

\* C3: in every run, however many files fail, the batch-finished
\* notification is eventually emitted, is emitted exactly once, and nothing
\* is emitted after it.
C3_FinishedOnceAtEnd ==
    /\ <>(Count("conversion_finished", 0) = 1)
    /\ [](Count("conversion_finished", 0) <= 1)
    /\ [](\A p \in At("conversion_finished", 0) : p = Len(log))

\* a batch of at least two files, all of which failed, has finished
C3_Witness ==
    /\ pc = "done"
    /\ Len(files) >= 2
    /\ \A idx \in 1..Len(files) : outcome[idx] = "raised"
    /\ log[Len(log)].kind = "conversion_finished"

\* C4: files are converted one after another in list order: the m-th call
\* of convert_ass_to_vtt is for the m-th file, every notification and file
\* operation of file i precedes every one of file i+1, and in particular
\* file i's output is written before file i+1 is read.
C4_NoInversion ==
    /\ \A a, b \in 1..Len(log) :
          (a < b /\ log[a].idx > 0 /\ log[b].idx > 0) => log[a].idx <= log[b].idx
    /\ \A a \in 1..Len(log) :
          log[a].kind = "call" =>
              log[a].idx = Cardinality({b \in 1..a : log[b].kind = "call"})
    /\ \A a, b \in 1..Len(log) :
          (log[a].kind = "write" /\ log[b].kind = "read"
             /\ log[a].idx < log[b].idx) => a < b

\* a finished batch in which two files were read, written and reported
C4_Witness ==
    /\ pc = "done"
    /\ Len(files) >= 2
    /\ outcome[1] = "returned"
    /\ outcome[2] = "returned"
    /\ Count("progress_updated", 2) = 1

\* C10: a batch never modifies an input file: no write goes to the input
\* path of its own or of any other task, so every input keeps the content
\* it had, and a task that fails before the write step (input missing or
\* undecodable) writes no file.
C10_InputsUntouched ==
    /\ \A p \in 1..Len(log) :
          log[p].kind = "write" => log[p].name \notin Range(files)
    /\ \A idx \in 1..Len(files) : fs[files[idx]] \notin {"vtt", "partial"}
    /\ \A p \in 1..Len(log) :
          (log[p].kind = "error_occurred"
             /\ log[p].cause \in {"FileNotFoundError", "UnicodeDecodeError"})
          => Count("write", log[p].idx) = 0

=============================================================================
